---- MODULE Spec2Model ----
(***************************************************************************)
(* Model of the order-table analysis scripts: the repurchase annotator     *)
(* (app.py load_data, eda_script.py calculate_repurchase), the seller      *)
(* metrics aggregator (app.py calculate_seller_metrics), the per-seller    *)
(* repurchase analysis (seller_repurchase_analysis.py), the run of the     *)
(* dashboard script (load, date filter, tabs) with its two memoized        *)
(* functions, and the loaders of hypothesis_eda.py and                     *)
(* gyeonggi_analysis.py.                                                   *)
(*                                                                         *)
(* Column names of the CSV are Korean in the source; the model writes      *)
(*   order_date   for the column read at app.py:37-38   (order timestamp)  *)
(*   contact      for the column read at app.py:51      (customer contact) *)
(*   seller       for the column grouped at app.py:107  (seller name)      *)
(*   order_id     for the column counted at app.py:110  (order id)         *)
(*   qty          for the column used at app.py:99      (order quantity)   *)
(*   supply_price for the column cleaned at app.py:94   (supply unit price)*)
(*   paid         for the column cleaned at app.py:87   (paid amount)      *)
(*   cancelled    for the column read at app.py:104     (cancel flag Y/N)  *)
(* Derived columns keep the names the source gives them.                   *)
(* The columns the tabs read without asking that are not in this list      *)
(* (product name, orderer name) are taken to be in every file; the columns *)
(* read only behind a test (region, channel, size, weight, purpose) feed   *)
(* plots and are left out.                                                 *)
(*                                                                         *)
(* A timestamp is a tick; two ticks make one calendar day, so tick 0 and   *)
(* tick 1 are two times of day 0 and tick 2 is the start of day 1.         *)
(* Amounts are whole numbers (won); a rate is an exact fraction, or one of *)
(* the IEEE values NaN, +inf, -inf that pandas produces on a zero divisor. *)
(***************************************************************************)
EXTENDS Integers, Sequences, FiniteSets, TLC

VARIABLES file, exists, pc, raised, df, df_filtered, window, seller_stats,
          results_df, load_cache, metrics_cache

vars == <<file, exists, pc, raised, df, df_filtered, window, seller_stats,
          results_df, load_cache, metrics_cache>>

\* ---------------------------------------------------------------- bounds
MaxRows == 3
MaxTick == 2

\* ----------------------------------------------------------------- cells
\* A cell of a numeric or mixed column: a number, NaN/NaT (missing) or text.
Num(n) == [k |-> "num", v |-> n, s |-> <<>>]
NaN == [k |-> "nan", v |-> 0, s |-> <<>>]
Txt(t) == [k |-> "txt", v |-> 0, s |-> t]

\* A missing value of a string column (contact, seller).
NoStr == "NaN"

\* -------------------------------------------------------------- integers
Abs(a) == IF a < 0 THEN 0 - a ELSE a

RECURSIVE Gcd(_, _)
Gcd(a, b) == IF b = 0 THEN a ELSE Gcd(b, a % b)

\* ---------------------------------------------------------------- floats
FNaN == [k |-> "nan", n |-> 0, d |-> 1]
FInf == [k |-> "inf", n |-> 0, d |-> 1]
FNegInf == [k |-> "-inf", n |-> 0, d |-> 1]

\* The fraction a/b in lowest terms, b > 0.
Frac(a, b) ==
    LET g == Gcd(Abs(a), b)
    IN [k |-> "num", n |-> a \div g, d |-> b \div g]

\* numpy true division of two numbers: x/0 is NaN for x = 0, else +-inf.
FDiv(a, b) ==
    IF b = 0 THEN (IF a = 0 THEN FNaN ELSE IF a > 0 THEN FInf ELSE FNegInf)
    ELSE IF b > 0 THEN Frac(a, b) ELSE Frac(0 - a, 0 - b)

\* A float times a positive integer.
FScale(f, m) == IF f.k = "num" THEN Frac(f.n * m, f.d) ELSE f

\* Series.fillna(0) on a float column: NaN becomes 0, +-inf stays.
FFillna0(f) == IF f.k = "nan" THEN Frac(0, 1) ELSE f

IsFinite(f) == f.k = "num"

\* ---------------------------------------------------------- text parsing
Digits == <<"0", "1", "2", "3", "4", "5", "6", "7", "8", "9">>

IsDigit(c) == \E i \in 1..10 : Digits[i] = c

DigitVal(c) == (CHOOSE i \in 1..10 : Digits[i] = c) - 1

RECURSIVE DigitsValue(_)
DigitsValue(t) ==
    IF t = <<>> THEN 0
    ELSE 10 * DigitsValue(SubSeq(t, 1, Len(t) - 1)) + DigitVal(t[Len(t)])

AllDigits(t) == Len(t) > 0 /\ \A i \in 1..Len(t) : IsDigit(t[i])

\* Whether float()/to_numeric accept the text: an optional sign and digits.
\* (Texts with a decimal point, an exponent or blanks are not in the cell
\* sets of this model.)
IsNumeral(t) ==
    \/ AllDigits(t)
    \/ Len(t) > 1 /\ t[1] = "-" /\ AllDigits(Tail(t))

NumeralValue(t) ==
    IF t[1] = "-" THEN 0 - DigitsValue(Tail(t)) ELSE DigitsValue(t)

\* str.replace(',', '')
StripCommas(t) == SelectSeq(t, LAMBDA c : c # ",")

\* str.replace(r'[^\d\.-]', '', regex=True)
StripNonNumeric(t) == SelectSeq(t, LAMBDA c : IsDigit(c) \/ c = "." \/ c = "-")

\* A column read by read_csv has dtype object when some cell of it is text.
IsObject(rows, col) == \E i \in 1..Len(rows) : rows[i][col].k = "txt"

\* .str.replace(',', '').astype(float) on one cell; astype raises on a text
\* that is no numeral.
AsTypeFloatRaises(c) == c.k = "txt" /\ ~IsNumeral(StripCommas(c.s))

AsTypeFloat(c) == IF c.k = "txt" THEN Num(NumeralValue(StripCommas(c.s))) ELSE c

\* pd.to_numeric(..., errors='coerce').fillna(0) after the regex strip of an
\* object cell: NaN prints as "nan", which the regex empties.
ToNumericCoerceFill(c) ==
    IF c.k = "num" THEN c.v
    ELSE IF c.k = "nan" THEN 0
    ELSE IF IsNumeral(StripNonNumeric(c.s)) THEN NumeralValue(StripNonNumeric(c.s))
    ELSE 0

\* ---------------------------------------------------------------- tables
\* A table is its set of column names and its rows; a row is a record with
\* one field per column and the field idx, the row's index label.
AllCols == {"order_date", "contact", "seller", "order_id", "qty",
            "supply_price", "paid", "cancelled"}

NoTable == [cols |-> {}, rows |-> <<>>]

\* The sequence with the elements f[1], ..., f[n], each computed once.
Rows(f) == SubSeq(f, 1, Len(f))

\* The order pandas sorts string keys in.
StrOrder == <<"A", "B", "X", "Y">>

StrPos(x) == CHOOSE i \in 1..Len(StrOrder) : StrOrder[i] = x

\* Sort keys: a missing value sorts last (na_position='last').
StrKey(x) == IF x = NoStr THEN <<1, 0>> ELSE <<0, StrPos(x)>>

CellKey(c) == IF c.k = "num" THEN <<0, c.v>> ELSE <<1, 0>>

\* Lexicographic order of two keys of one length.
LexLess(a, b) ==
    \E i \in 1..Len(a) : a[i] < b[i] /\ \A j \in 1..(i - 1) : a[j] = b[j]

\* A stable sort of s by the keys (keys[i] is the key of s[i]): the element
\* at position i goes behind every element with a smaller key and behind
\* the earlier elements with an equal key.
SortedPos(keys, i) ==
    1 + Cardinality({j \in 1..Len(keys) :
          \/ LexLess(keys[j], keys[i])
          \/ keys[j] = keys[i] /\ j < i})

StableSort(s, keys) ==
    Rows([p \in 1..Len(s) |-> s[CHOOSE i \in 1..Len(s) : SortedPos(keys, i) = p]])

\* .dt.date of a timestamp cell: the calendar day, NaT for NaT.
DtDate(c) == IF c.k = "num" THEN Num(c.v \div 2) ELSE NaN

\* ------------------------------------------------- app.py load_data
\* df.sort_values(by=[contact, 'Date'])
ContactDateKeys(rows) ==
    Rows([i \in 1..Len(rows) |-> StrKey(rows[i].contact) \o CellKey(rows[i].Date)])

\* groupby(contact)['Date'].count(): rows, not distinct dates.
user_order_counts_rows(rows, c) ==
    Cardinality({i \in 1..Len(rows) : rows[i].contact = c})

\* df.groupby(contact)['Date'].nunique() at key c; nunique leaves NaT out.
user_order_counts(rows, c) ==
    Cardinality({rows[i].Date.v : i \in {j \in 1..Len(rows) :
                    rows[j].contact = c /\ rows[j].Date.k = "num"}})

\* groupby(dropna=False): the rows without a contact form a group of their own.
UserTotalOrders_keepna(rows, r) == Num(user_order_counts(rows, r.contact))

\* df[contact].map(user_order_counts): groupby drops the missing key, so a
\* row with no contact maps to NaN.
UserTotalOrders(rows, r) ==
    IF r.contact = NoStr THEN NaN ELSE Num(user_order_counts(rows, r.contact))

\* (UserTotalOrders - 1).fillna(0).astype(int)
RepurchaseOf(uto) == IF uto.k = "nan" THEN 0 ELSE uto.v - 1

load_data_dates(t) ==
    IF "order_date" \in t.cols
    THEN [cols |-> t.cols \cup {"OrderDate", "Date"},
          rows |-> Rows([i \in 1..Len(t.rows) |->
                      t.rows[i] @@ [OrderDate |-> t.rows[i].order_date,
                                    Date |-> DtDate(t.rows[i].order_date)]])]
    ELSE t

load_data_prices(t) ==
    IF "paid" \in t.cols /\ IsObject(t.rows, "paid")
    THEN [t EXCEPT !.rows = Rows([i \in 1..Len(t.rows) |->
                      [t.rows[i] EXCEPT !.paid = AsTypeFloat(@)]])]
    ELSE t

load_data_raises(t) ==
    /\ "paid" \in t.cols
    /\ IsObject(t.rows, "paid")
    /\ \E i \in 1..Len(t.rows) : AsTypeFloatRaises(t.rows[i].paid)

\* The annotation as an "N-th purchase" of the row: the distinct dates of the
\* contact up to the date of the row, less one.
load_data_repurchase_nth(t) ==
    IF "contact" \in t.cols /\ "OrderDate" \in t.cols
    THEN LET sorted == StableSort(t.rows, ContactDateKeys(t.rows))
             nth(r) == IF r.contact = NoStr THEN NaN
                       ELSE Num(Cardinality({sorted[j].Date.v : j \in {k \in 1..Len(sorted) :
                                /\ sorted[k].contact = r.contact
                                /\ sorted[k].Date.k = "num"
                                /\ r.Date.k = "num"
                                /\ sorted[k].Date.v <= r.Date.v}}))
         IN [cols |-> t.cols \cup {"UserTotalOrders", "RepurchaseCount"},
             rows |-> Rows([i \in 1..Len(sorted) |->
                         sorted[i] @@
                         [UserTotalOrders |-> nth(sorted[i]),
                          RepurchaseCount |-> RepurchaseOf(nth(sorted[i]))]])]
    ELSE t

load_data_repurchase(t) ==
    IF "contact" \in t.cols /\ "OrderDate" \in t.cols
    THEN LET sorted == StableSort(t.rows, ContactDateKeys(t.rows))
         IN [cols |-> t.cols \cup {"UserTotalOrders", "RepurchaseCount"},
             rows |-> Rows([i \in 1..Len(sorted) |->
                         sorted[i] @@
                         [UserTotalOrders |-> UserTotalOrders(sorted, sorted[i]),
                          RepurchaseCount |->
                              RepurchaseOf(UserTotalOrders(sorted, sorted[i]))]])]
    ELSE t

load_data(t) == load_data_repurchase(load_data_prices(load_data_dates(t)))

\* ------------------------------------- eda_script.py calculate_repurchase
\* The annotated column the source names in Korean is written
\* repurchase_count here; OrderDate is the calendar date in this script.
OrderDateKeys(rows) ==
    Rows([i \in 1..Len(rows) |-> StrKey(rows[i].contact) \o CellKey(rows[i].OrderDate)])

\* groupby(contact)['OrderDate'].count(): the dated rows, not the dates.
eda_user_order_counts_rows(rows, c) ==
    Cardinality({i \in 1..Len(rows) : rows[i].contact = c /\ rows[i].OrderDate.k = "num"})

eda_user_order_counts(rows, c) ==
    Cardinality({rows[i].OrderDate.v : i \in {j \in 1..Len(rows) :
                    rows[j].contact = c /\ rows[j].OrderDate.k = "num"}})

calculate_repurchase(t) ==
    IF "contact" \notin t.cols \/ "order_date" \notin t.cols THEN t
    ELSE LET dated == Rows([i \in 1..Len(t.rows) |->
                         t.rows[i] @@ [OrderDate |-> DtDate(t.rows[i].order_date)]])
             sorted == StableSort(dated, OrderDateKeys(dated))
             uto(r) == IF r.contact = NoStr THEN NaN
                       ELSE Num(eda_user_order_counts(sorted, r.contact))
         IN [cols |-> t.cols \cup {"OrderDate", "UserTotalOrders", "repurchase_count"},
             rows |-> Rows([i \in 1..Len(sorted) |->
                         sorted[i] @@
                         [UserTotalOrders |-> uto(sorted[i]),
                          repurchase_count |-> RepurchaseOf(uto(sorted[i]))]])]

\* pd.to_datetime in place, the price columns, then calculate_repurchase.
load_and_preprocess(t) == calculate_repurchase(load_data_prices(t))

\* ------------------------------------- app.py calculate_seller_metrics
\* Lines 87-91: the paid amount made numeric, in the table that was passed.
clean_paid(t) ==
    IF "paid" \in t.cols
    THEN [t EXCEPT !.rows = Rows([i \in 1..Len(t.rows) |->
                      [t.rows[i] EXCEPT !.paid = Num(ToNumericCoerceFill(@))]])]
    ELSE t

\* SupplyCost without the quantity factor.
SupplyCost_unit(r) == ToNumericCoerceFill(r.supply_price)

\* Line 99: cleaned supply unit price x order quantity.
SupplyCost(r) == ToNumericCoerceFill(r.supply_price) * r.qty

\* Line 104: 1 if the flag is 'Y' else 0; 0 without the column.
IsCancelled(t, r) ==
    IF "cancelled" \in t.cols THEN (IF r.cancelled = "Y" THEN 1 ELSE 0) ELSE 0

\* The cleaned supply cost written back into the supply unit price column.
add_margin_inplace(t) ==
    [cols |-> t.cols \cup {"SupplyCost", "Margin", "IsCancelled"},
     rows |-> Rows([i \in 1..Len(t.rows) |->
                [SupplyCost |-> SupplyCost(t.rows[i]),
                 Margin |-> t.rows[i].paid.v - SupplyCost(t.rows[i]),
                 IsCancelled |-> IsCancelled(t, t.rows[i]),
                 supply_price |-> Num(SupplyCost(t.rows[i]))]
                @@ t.rows[i]])]

\* Lines 94-104: the columns SupplyCost, Margin and IsCancelled; an
\* assignment to a column the table already has replaces its cells.
add_margin(t) ==
    IF "supply_price" \in t.cols
    THEN [cols |-> t.cols \cup {"SupplyCost", "Margin", "IsCancelled"},
          rows |-> Rows([i \in 1..Len(t.rows) |->
                     [SupplyCost |-> SupplyCost(t.rows[i]),
                      Margin |-> t.rows[i].paid.v - SupplyCost(t.rows[i]),
                      IsCancelled |-> IsCancelled(t, t.rows[i])]
                     @@ t.rows[i]])]
    ELSE [cols |-> t.cols \cup {"Margin", "IsCancelled"},
          rows |-> Rows([i \in 1..Len(t.rows) |->
                     [Margin |-> 0, IsCancelled |-> IsCancelled(t, t.rows[i])]
                     @@ t.rows[i]])]

\* The table as calculate_seller_metrics leaves it (it writes to its argument).
metrics_table(t) == add_margin(clean_paid(t))

\* A column the function reads without asking for it is missing: KeyError.
metrics_raises(t) == {"seller", "paid", "order_id", "qty"} \ t.cols # {}

\* The row positions of one seller: df[df[seller] == s].
SellerRows(t, s) == {i \in 1..Len(t.rows) : t.rows[i].seller = s}

\* Sum of f over a set of row positions.
RECURSIVE SumOver(_, _)
SumOver(S, f) ==
    IF S = {} THEN 0
    ELSE LET i == CHOOSE x \in S : TRUE IN f[i] + SumOver(S \ {i}, f)

Col(t, name) == [i \in 1..Len(t.rows) |-> t.rows[i][name]]

\* ('order_id', 'count'): the rows with an order id, not the distinct ids.
OrderCount_rows(t, s) ==
    Cardinality({i \in SellerRows(t, s) : t.rows[i].order_id.k = "num"})

\* ('order_id', 'nunique'): distinct order ids, missing ids left out.
OrderCount(t, s) ==
    Cardinality({t.rows[i].order_id.v :
                    i \in {j \in SellerRows(t, s) : t.rows[j].order_id.k = "num"}})

TotalRevenue(t, s) == SumOver(SellerRows(t, s), [i \in 1..Len(t.rows) |-> t.rows[i].paid.v])

TotalMargin(t, s) == SumOver(SellerRows(t, s), Col(t, "Margin"))

TotalQty(t, s) == SumOver(SellerRows(t, s), Col(t, "qty"))

CancelCount(t, s) == SumOver(SellerRows(t, s), Col(t, "IsCancelled"))

\* A margin rate that is never below 0: a loss shows as 0.
MarginRate_clipped(tm, tr) ==
    IF tr > 0 /\ tm < 0 THEN Frac(0, 1) ELSE FFillna0(FScale(FDiv(tm, tr), 100))

\* Lines 116-117: (TotalMargin / TotalRevenue) * 100, then fillna(0).
MarginRate(tm, tr) == FFillna0(FScale(FDiv(tm, tr), 100))

\* Line 118: (CancelCount / OrderCount) * 100.
CancelRate(cc, oc) == FScale(FDiv(cc, oc), 100)

\* Line 119
AOV(tr, oc) == FDiv(tr, oc)

\* Line 127: seller_df[contact].value_counts(); the missing contact is left out.
user_counts(t, s, c) ==
    Cardinality({i \in SellerRows(t, s) : t.rows[i].contact = c})

SellerContacts(t, s) == {t.rows[i].contact : i \in SellerRows(t, s)} \ {NoStr}

\* The customers with more than one distinct calendar date instead.
re_users_dates(t, s) ==
    {c \in SellerContacts(t, s) :
        Cardinality({t.rows[i].Date.v : i \in {j \in SellerRows(t, s) :
            t.rows[j].contact = c /\ t.rows[j].Date.k = "num"}}) > 1}

\* Line 129: user_counts[user_counts > 1]
re_users(t, s) == {c \in SellerContacts(t, s) : user_counts(t, s, c) > 1}

\* Lines 123-134
RepurchaseRate(t, s) ==
    IF "contact" \in t.cols
    THEN LET total_users == Cardinality(SellerContacts(t, s))
         IN IF total_users > 0
            THEN Frac(Cardinality(re_users(t, s)) * 100, total_users)
            ELSE Frac(0, 1)
    ELSE Frac(0, 1)

\* min / max of the timestamps at the given rows, NaT when there is none.
StampsAt(t, S) == {t.rows[i].OrderDate.v : i \in {j \in S : t.rows[j].OrderDate.k = "num"}}

MinStamp(t, S) ==
    IF StampsAt(t, S) = {} THEN NaN
    ELSE Num(CHOOSE x \in StampsAt(t, S) : \A y \in StampsAt(t, S) : x <= y)

MaxStamp(t, S) ==
    IF StampsAt(t, S) = {} THEN NaN
    ELSE Num(CHOOSE x \in StampsAt(t, S) : \A y \in StampsAt(t, S) : x >= y)

\* (b - a).dt.days: whole days of a timedelta, NaN when either end is NaT.
DtDays(b, a) ==
    IF a.k = "num" /\ b.k = "num" THEN Num((b.v - a.v) \div 2) ELSE NaN

CellPlus(c, n) == IF c.k = "num" THEN Num(c.v + n) ELSE c

\* The defaults of lines 152-153 with the + 1 of line 146 applied to them.
lifecycle_plus1(t, s) ==
    IF "OrderDate" \in t.cols
    THEN LET first == MinStamp(t, SellerRows(t, s))
             last == MaxStamp(t, SellerRows(t, s))
         IN [FirstOrderDate |-> first,
             LastOrderDate |-> last,
             TenureDays |-> CellPlus(DtDays(last, first), 1),
             RecencyDays |-> DtDays(MaxStamp(t, 1..Len(t.rows)), last)]
    ELSE [FirstOrderDate |-> NaN, TenureDays |-> Num(1), RecencyDays |-> Num(0)]

\* Lines 137-154
lifecycle(t, s) ==
    IF "OrderDate" \in t.cols
    THEN LET first == MinStamp(t, SellerRows(t, s))
             last == MaxStamp(t, SellerRows(t, s))
         IN [FirstOrderDate |-> first,
             LastOrderDate |-> last,
             TenureDays |-> CellPlus(DtDays(last, first), 1),
             RecencyDays |-> DtDays(MaxStamp(t, 1..Len(t.rows)), last)]
    ELSE [FirstOrderDate |-> NaN, TenureDays |-> Num(0), RecencyDays |-> Num(0)]

\* Lines 107-134: one row of the summary before the lifecycle fields.
seller_row(t, s) ==
    [seller |-> s,
     TotalRevenue |-> TotalRevenue(t, s),
     TotalMargin |-> TotalMargin(t, s),
     OrderCount |-> OrderCount(t, s),
     TotalQty |-> TotalQty(t, s),
     CancelCount |-> CancelCount(t, s),
     MarginRate |-> MarginRate(TotalMargin(t, s), TotalRevenue(t, s)),
     CancelRate |-> CancelRate(CancelCount(t, s), OrderCount(t, s)),
     AOV |-> AOV(TotalRevenue(t, s), OrderCount(t, s)),
     RepurchaseRate |-> RepurchaseRate(t, s)]

\* One key per row that names a seller, in row order: no grouping.
GroupKeys_rows(t) ==
    LET named == SelectSeq(t.rows, LAMBDA r : r.seller # NoStr)
    IN Rows([i \in 1..Len(named) |-> named[i].seller])

\* df.groupby(seller): one group per seller name present, the missing name
\* left out, the groups in ascending order of the name.
GroupKeys(t) ==
    SelectSeq(StrOrder, LAMBDA s : \E i \in 1..Len(t.rows) : t.rows[i].seller = s)

\* Lines 138-139 (and the fields lines 146-150 derive from them): one row
\* per group of df.groupby(seller)['OrderDate'].
lifecycle_rows(t) ==
    LET keys == GroupKeys(t)
    IN Rows([g \in 1..Len(keys) |-> [seller |-> keys[g]] @@ lifecycle(t, keys[g])])

\* The lifecycle fields of a left row that no right row matches.
NoLifecycle ==
    [FirstOrderDate |-> NaN, LastOrderDate |-> NaN, TenureDays |-> NaN, RecencyDays |-> NaN]

\* Line 142: pd.merge(left, right, on=seller, how='left'): every left row
\* once for each right row with its seller, once without a match.
RECURSIVE merge_left(_, _)
merge_left(left, right) ==
    IF left = <<>> THEN <<>>
    ELSE LET l == Head(left)
             matches == SelectSeq(right, LAMBDA r : r.seller = l.seller)
         IN (IF matches = <<>> THEN <<l @@ NoLifecycle>>
             ELSE Rows([m \in 1..Len(matches) |-> l @@ matches[m]]))
            \o merge_left(Tail(left), right)

\* Lines 107-154: the summary before the final sort.
grouped_stats(t) ==
    LET keys == GroupKeys(t)
        stats == Rows([g \in 1..Len(keys) |-> seller_row(t, keys[g])])
    IN IF "OrderDate" \in t.cols
       THEN merge_left(stats, lifecycle_rows(t))
       ELSE Rows([g \in 1..Len(stats) |-> stats[g] @@ lifecycle(t, stats[g].seller)])

\* The orders of the rows that a sort may return.
Perms(n) == {p \in [1..n -> 1..n] : \A i, j \in 1..n : i # j => p[i] # p[j]}

\* Line 156: sort_values(by='TotalRevenue', ascending=False) with the default
\* kind 'quicksort', which is not a stable sort: every order of the rows that
\* is descending in TotalRevenue is a possible result.
sort_outcomes(stats) ==
    {Rows([i \in 1..Len(stats) |-> stats[p[i]]]) : p \in
        {q \in Perms(Len(stats)) : \A i, j \in 1..Len(stats) :
            i < j => stats[q[i]].TotalRevenue >= stats[q[j]].TotalRevenue}}

\* ------------------- seller_repurchase_analysis.py analyze_seller_repurchase
\* Line 49: df[seller].unique(), in order of first appearance, NaN included.
RECURSIVE unique_sellers(_)
unique_sellers(rows) ==
    IF rows = <<>> THEN <<>>
    ELSE LET rest == unique_sellers(SubSeq(rows, 1, Len(rows) - 1))
             s == rows[Len(rows)].seller
         IN IF \E i \in 1..Len(rest) : rest[i] = s THEN rest ELSE Append(rest, s)

\* Line 52: df[df[seller] == s]; NaN equals nothing, itself included.
SellerDf(t, s) == IF s = NoStr THEN {} ELSE SellerRows(t, s)

\* Line 55: seller_df[contact].nunique()
total_customers(t, s) ==
    Cardinality({t.rows[i].contact : i \in SellerDf(t, s)} \ {NoStr})

\* Lines 59-62: customers with more than one distinct calendar date.
repurchasing_customers(t, s) ==
    Cardinality({c \in {t.rows[i].contact : i \in SellerDf(t, s)} \ {NoStr} :
        Cardinality({t.rows[i].Date.v : i \in {j \in SellerDf(t, s) :
            t.rows[j].contact = c /\ t.rows[j].Date.k = "num"}}) > 1})

\* Line 64
repurchase_rate(t, s) ==
    IF total_customers(t, s) > 0
    THEN Frac(repurchasing_customers(t, s) * 100, total_customers(t, s))
    ELSE Frac(0, 1)

\* Line 66: .astype(str).str.replace(',', '').astype(float).sum()
srp_total_revenue(t, s) ==
    SumOver(SellerDf(t, s),
            [i \in 1..Len(t.rows) |->
                IF t.rows[i].paid.k = "nan" THEN 0 ELSE AsTypeFloat(t.rows[i].paid).v])

\* Lines 26-38: the function returns early without a column it requires.
srp_returns_early(t) == {"order_date", "seller", "contact", "paid"} \ t.cols # {}

\* Line 66 raises on a text that is no numeral; line 79 raises KeyError on
\* the column-less frame built from an empty result list.
srp_raises(t) ==
    \/ \E i \in 1..Len(t.rows) :
         t.rows[i].seller # NoStr /\ AsTypeFloatRaises(t.rows[i].paid)
    \/ Len(t.rows) = 0

\* Lines 46-76
srp_results(t) ==
    LET d == load_data_dates(t)
        sellers == unique_sellers(d.rows)
    IN Rows([g \in 1..Len(sellers) |->
          [Seller |-> sellers[g],
           TotalCustomers |-> total_customers(d, sellers[g]),
           RepurchasingCustomers |-> repurchasing_customers(d, sellers[g]),
           RepurchaseRate |-> repurchase_rate(d, sellers[g]),
           TotalRevenue |-> srp_total_revenue(d, sellers[g])]])

\* ----------------------------------------------------------- input rows
Contacts == {"A", "B"}

Sellers == {"X", "Y"}

DateCells == {NaN} \cup {Num(t) : t \in 0..MaxTick}

DefaultRow ==
    [order_date |-> Num(0), contact |-> "A", seller |-> "X", order_id |-> Num(1),
     qty |-> 1, supply_price |-> Num(0), paid |-> Num(0), cancelled |-> "N"]

\* Rows that differ in the customer and in the order timestamp.
RepurchaseRows ==
    {[DefaultRow EXCEPT !.contact = c, !.order_date = d] :
        c \in Contacts \cup {NoStr}, d \in DateCells}

\* read_csv gives the rows the index labels 0, 1, 2, ...; a row has a cell
\* for each column of the file.
AppendRow(t, r) ==
    [t EXCEPT !.rows = Append(@, [c \in t.cols |-> r[c]] @@ [idx |-> Len(t.rows)])]

\* ------------------------------------------------- the dashboard script
\* Line 78: the rows whose calendar date lies in the window the user chose.
mask(t, w) ==
    {i \in 1..Len(t.rows) :
        t.rows[i].Date.k = "num" /\ w[1] <= t.rows[i].Date.v /\ t.rows[i].Date.v <= w[2]}

\* Lines 176-192: tab 1 reads df_filtered and these columns without asking.
tabs_raises == df_filtered = "unbound" \/ {"paid", "order_id", "order_date"} \ df.cols # {}

\* Line 226: df_filtered['Hour'] = df_filtered['OrderDate'].dt.hour
add_hour(t) ==
    IF "OrderDate" \in t.cols
    THEN [cols |-> t.cols \cup {"Hour"},
          rows |-> Rows([i \in 1..Len(t.rows) |->
                     t.rows[i] @@
                     [Hour |-> IF t.rows[i].OrderDate.k = "num"
                               THEN Num(t.rows[i].OrderDate.v % 2) ELSE NaN]])]
    ELSE t

\* Line 357: df_filtered['IsCancelled'], written in tab 5.
add_is_cancelled(t) ==
    IF "cancelled" \in t.cols
    THEN [cols |-> t.cols \cup {"IsCancelled"},
          rows |-> Rows([i \in 1..Len(t.rows) |->
                     [IsCancelled |-> IsCancelled(t, t.rows[i])] @@ t.rows[i]])]
    ELSE t

\* The table as tabs 1 to 6 leave it.
tabs_table(t) == add_is_cancelled(add_hour(t))

\* ------------------------------------- hypothesis_eda.py load_data
CellTimes(c, n) == IF c.k = "num" THEN Num(c.v * n) ELSE NaN

CellMinus(a, b) == IF a.k = "num" /\ b.k = "num" THEN Num(a.v - b.v) ELSE NaN

\* Line 45: Profit / paid when paid > 0, else 0 (NaN > 0 is false).
hyp_margin_rate(profit, amount) ==
    IF amount.k = "num" /\ amount.v > 0 /\ profit.k = "num"
    THEN FDiv(profit.v, amount.v)
    ELSE IF amount.k = "num" /\ amount.v > 0 THEN FNaN ELSE Frac(0, 1)

hyp_has_margin(t) == {"paid", "supply_price", "qty"} \subseteq t.cols

\* Lines 23-25: the order date parsed in place and its month; the ticks of
\* the model lie in one month.
hyp_dates(t) ==
    IF "order_date" \in t.cols
    THEN [cols |-> t.cols \cup {"Month"},
          rows |-> Rows([i \in 1..Len(t.rows) |->
                     t.rows[i] @@
                     [Month |-> IF t.rows[i].order_date.k = "num" THEN Num(0) ELSE NaN]])]
    ELSE t

\* Lines 33-45
hyp_margin(t) ==
    IF hyp_has_margin(t)
    THEN [cols |-> t.cols \cup {"TotalSupplyCost", "Profit", "MarginRate"},
          rows |-> Rows([i \in 1..Len(t.rows) |->
                     LET r == t.rows[i]
                         unit == AsTypeFloat(r.supply_price)
                         cost == CellTimes(unit, r.qty)
                         profit == CellMinus(r.paid, cost)
                     IN [r EXCEPT !.supply_price = unit] @@
                        [TotalSupplyCost |-> cost,
                         Profit |-> profit,
                         MarginRate |-> hyp_margin_rate(profit, r.paid)]])]
    ELSE t

hyp_load_data(t) == hyp_margin(load_data_prices(hyp_dates(t)))

\* astype(float) at line 30 or line 36 meets a text that is no numeral.
hyp_load_data_raises(t) ==
    \/ load_data_raises(t)
    \/ /\ hyp_has_margin(t)
       /\ \E i \in 1..Len(t.rows) : AsTypeFloatRaises(t.rows[i].supply_price)

\* ------------------------------------- gyeonggi_analysis.py load_data
\* Lines 22-25: the price columns, the supply unit price among them.
gg_load_data(t) ==
    LET p == load_data_prices(t)
    IN IF "supply_price" \in p.cols /\ IsObject(p.rows, "supply_price")
       THEN [p EXCEPT !.rows = Rows([i \in 1..Len(p.rows) |->
                          [p.rows[i] EXCEPT !.supply_price = AsTypeFloat(@)]])]
       ELSE p

gg_load_data_raises(t) ==
    \/ load_data_raises(t)
    \/ /\ "supply_price" \in t.cols
       /\ \E i \in 1..Len(t.rows) : AsTypeFloatRaises(t.rows[i].supply_price)

\* -------------------------------------------------------------- actions
\* No window chosen yet.
NoWindow == <<0, 0>>

\* The calendar days of the date picker.
Days == 0..(MaxTick \div 2)

InitRun ==
    /\ exists = TRUE
    /\ pc = "file"
    /\ raised = ""
    /\ df = NoTable
    /\ df_filtered = "unbound"
    /\ window = NoWindow
    /\ seller_stats = <<>>
    /\ results_df = <<>>
    /\ load_cache = <<>>
    /\ metrics_cache = {}

\* A CSV file with all the expected columns and no row yet.
Init ==
    /\ file = [cols |-> AllCols, rows |-> <<>>]
    /\ InitRun

\* A CSV file with all the expected columns, with all but one of them, or
\* with neither the customer contact nor the order date.
InitColumns ==
    /\ file \in {[cols |-> AllCols \ M, rows |-> <<>>] :
                    M \in {{}} \cup {{c} : c \in AllCols}
                             \cup {{"contact", "order_date"}}}
    /\ InitRun

\* The CSV file gets one more order row before any script runs.
WriteRow(r) ==
    /\ pc = "file"
    /\ exists
    /\ Len(file.rows) < MaxRows
    /\ file' = AppendRow(file, r)
    /\ UNCHANGED <<exists, pc, raised, df, df_filtered, window, seller_stats,
                   results_df, load_cache, metrics_cache>>

\* The CSV file is deleted between two runs.
RemoveFile ==
    /\ pc = "file"
    /\ exists
    /\ exists' = FALSE
    /\ file' = NoTable
    /\ UNCHANGED <<pc, raised, df, df_filtered, window, seller_stats,
                   results_df, load_cache, metrics_cache>>

\* app.py:64-68, df = load_data(FILEPATH). load_data is memoized on its
\* argument, the path, which is the same constant in every run: once a
\* result is stored the body (the existence test included) is not run again.
\* A None result is reported with st.error and the run ends with st.stop.
AppLoadData ==
    /\ pc = "file"
    /\ IF load_cache # <<>>
       THEN /\ IF load_cache[1].none
               THEN pc' = "stopped" /\ UNCHANGED df
               ELSE pc' = "app" /\ df' = load_cache[1].value
            /\ UNCHANGED <<raised, load_cache>>
       ELSE IF ~exists
       THEN /\ pc' = "stopped"
            /\ load_cache' = <<[none |-> TRUE, value |-> NoTable]>>
            /\ UNCHANGED <<raised, df>>
       ELSE IF load_data_raises(file)
       THEN pc' = "error" /\ raised' = "load_data" /\ UNCHANGED <<df, load_cache>>
       ELSE LET loaded == load_data(file)
            IN /\ pc' = "app"
               /\ df' = loaded
               /\ load_cache' = <<[none |-> FALSE, value |-> loaded]>>
               /\ UNCHANGED raised
    /\ UNCHANGED <<file, exists, df_filtered, window, seller_stats, results_df,
                   metrics_cache>>

\* app.py:72-80, the date filter of the sidebar. Without the OrderDate
\* column the name df_filtered is never bound. With it the user picks a
\* window, the filtered table of line 79 is dropped and df_filtered names
\* df itself (line 80). With no parsed date at all the defaults handed to
\* the date picker are NaT; what the widget does with them is not in the
\* source, so the run may go on or end in an exception.
SidebarFilter ==
    /\ pc = "app"
    /\ IF "OrderDate" \in df.cols
       THEN \/ /\ \E s, e \in Days : s <= e /\ window' = <<s, e>>
               /\ df_filtered' = "df"
               /\ pc' = "filtered"
               /\ UNCHANGED raised
            \/ /\ MaxStamp(df, 1..Len(df.rows)).k = "nan"
               /\ pc' = "error"
               /\ raised' = "date_input"
               /\ UNCHANGED <<window, df_filtered>>
       ELSE pc' = "filtered" /\ UNCHANGED <<raised, window, df_filtered>>
    /\ UNCHANGED <<file, exists, df, seller_stats, results_df, load_cache,
                   metrics_cache>>

\* app.py:171-442, tabs 1 to 6: they read df_filtered and write the columns
\* Hour and IsCancelled into it.
Tabs1to6 ==
    /\ pc = "filtered"
    /\ IF tabs_raises
       THEN pc' = "error" /\ raised' = "tab1" /\ UNCHANGED df
       ELSE pc' = "tabs" /\ df' = tabs_table(df) /\ UNCHANGED raised
    /\ UNCHANGED <<file, exists, df_filtered, window, seller_stats, results_df,
                   load_cache, metrics_cache>>

\* calculate_seller_metrics(df) behind its memo (app.py:83): a stored result
\* for an equal table is returned without running the body; otherwise the
\* body runs, writes its columns into the table it is given, and the result
\* is stored under the table as it was passed. In tab 7 the slider of line
\* 454 follows, where int() of the maximum of an empty column raises.
SellerMetrics(tab) ==
    /\ IF "seller" \notin df.cols
       THEN pc' = "skipped" /\ UNCHANGED <<raised, df, seller_stats, metrics_cache>>
       ELSE IF \E e \in metrics_cache : e.arg = df
       THEN LET hit == (CHOOSE e \in metrics_cache : e.arg = df).result
            IN /\ seller_stats' = hit
               /\ pc' = IF tab /\ hit = <<>> THEN "error" ELSE "metrics"
               /\ raised' = IF tab /\ hit = <<>> THEN "slider" ELSE raised
               /\ UNCHANGED <<df, metrics_cache>>
       ELSE IF metrics_raises(df)
       THEN /\ pc' = "error"
            /\ raised' = "calculate_seller_metrics"
            /\ UNCHANGED <<df, seller_stats, metrics_cache>>
       ELSE \E out \in sort_outcomes(grouped_stats(metrics_table(df))) :
            /\ seller_stats' = out
            /\ df' = metrics_table(df)
            /\ metrics_cache' = metrics_cache \cup {[arg |-> df, result |-> out]}
            /\ pc' = IF tab /\ out = <<>> THEN "error" ELSE "metrics"
            /\ raised' = IF tab /\ out = <<>> THEN "slider" ELSE raised
    /\ UNCHANGED <<file, exists, df_filtered, window, results_df, load_cache>>

\* calculate_seller_metrics called on the table load_data returned.
CalculateSellerMetrics == pc = "app" /\ SellerMetrics(FALSE)

\* app.py:444-455, tab 7.
Tab7 == pc = "tabs" /\ SellerMetrics(TRUE)

\* The next run of a script: the dashboard script is run again from its
\* first line on every interaction; the memo stores outlive the run.
Rerun ==
    /\ pc # "file"
    /\ pc' = "file"
    /\ raised' = ""
    /\ df' = NoTable
    /\ df_filtered' = "unbound"
    /\ window' = NoWindow
    /\ seller_stats' = <<>>
    /\ results_df' = <<>>
    /\ UNCHANGED <<file, exists, load_cache, metrics_cache>>

\* eda_script.py:406-412, main up to df = load_and_preprocess(filepath)
EdaLoadAndPreprocess ==
    /\ pc = "file"
    /\ IF ~exists
       THEN pc' = "stopped" /\ UNCHANGED <<raised, df>>
       ELSE IF load_data_raises(file)
       THEN pc' = "error" /\ raised' = "load_and_preprocess" /\ UNCHANGED df
       ELSE pc' = "eda" /\ df' = load_and_preprocess(file) /\ UNCHANGED raised
    /\ UNCHANGED <<file, exists, df_filtered, window, seller_stats, results_df,
                   load_cache, metrics_cache>>

\* hypothesis_eda.py:255-258, main up to the None test; the hypothesis
\* functions that follow print and plot.
HypothesisMain ==
    /\ pc = "file"
    /\ IF ~exists
       THEN pc' = "stopped" /\ UNCHANGED <<raised, df>>
       ELSE IF hyp_load_data_raises(file)
       THEN pc' = "error" /\ raised' = "load_data" /\ UNCHANGED df
       ELSE pc' = "hypothesis" /\ df' = hyp_load_data(file) /\ UNCHANGED raised
    /\ UNCHANGED <<file, exists, df_filtered, window, seller_stats, results_df,
                   load_cache, metrics_cache>>

\* gyeonggi_analysis.py:116-120, main; the analysis that follows prints and
\* plots.
GyeonggiMain ==
    /\ pc = "file"
    /\ IF ~exists
       THEN pc' = "stopped" /\ UNCHANGED <<raised, df>>
       ELSE IF gg_load_data_raises(file)
       THEN pc' = "error" /\ raised' = "load_data" /\ UNCHANGED df
       ELSE pc' = "gyeonggi" /\ df' = gg_load_data(file) /\ UNCHANGED raised
    /\ UNCHANGED <<file, exists, df_filtered, window, seller_stats, results_df,
                   load_cache, metrics_cache>>

\* seller_repurchase_analysis.py:17-99
AnalyzeSellerRepurchase ==
    /\ pc = "file"
    /\ IF ~exists \/ srp_returns_early(file)
       THEN pc' = (IF exists THEN "srp" ELSE "stopped") /\ UNCHANGED <<raised, results_df>>
       ELSE IF srp_raises(file)
       THEN /\ pc' = "error"
            /\ raised' = "analyze_seller_repurchase"
            /\ UNCHANGED results_df
       ELSE pc' = "srp" /\ results_df' = srp_results(file) /\ UNCHANGED raised
    /\ UNCHANGED <<file, exists, df, df_filtered, window, seller_stats,
                   load_cache, metrics_cache>>

NextRepurchase ==
    \/ \E r \in RepurchaseRows : WriteRow(r)
    \/ AppLoadData
    \/ EdaLoadAndPreprocess

SpecRepurchase == Init /\ [][NextRepurchase]_vars

\* Rows that differ in the seller, the order id and the cancellation flag.
OrderInput ==
    {[DefaultRow EXCEPT !.seller = s, !.order_id = o, !.cancelled = f] :
        s \in Sellers \cup {NoStr}, o \in {NaN, Num(1), Num(2)}, f \in {"Y", "N"}}

\* Rows that differ in the seller, the paid amount, the supply unit price
\* and the quantity.
MarginInput ==
    {[DefaultRow EXCEPT !.seller = s, !.paid = a, !.supply_price = u[1], !.qty = u[2]] :
        s \in Sellers,
        a \in {Num(0), Num(4000), Num(6000)},
        u \in {<<Num(0), 1>>, <<Num(1500), 2>>, <<Txt(<<"3", ",", "0", "0", "0">>), 1>>}}

\* Rows that differ in the seller, the customer and the order timestamp.
CustomerInput ==
    {[DefaultRow EXCEPT !.seller = s, !.contact = c, !.order_date = Num(d)] :
        s \in Sellers, c \in Contacts \cup {NoStr}, d \in {0, 1, 2}}

NextOrders ==
    \/ \E r \in OrderInput : WriteRow(r)
    \/ AppLoadData
    \/ CalculateSellerMetrics

SpecOrders == Init /\ [][NextOrders]_vars

NextMargin ==
    \/ \E r \in MarginInput : WriteRow(r)
    \/ AppLoadData
    \/ CalculateSellerMetrics

SpecMargin == Init /\ [][NextMargin]_vars

NextCustomers ==
    \/ \E r \in CustomerInput : WriteRow(r)
    \/ AppLoadData
    \/ CalculateSellerMetrics
    \/ AnalyzeSellerRepurchase

SpecCustomers == Init /\ [][NextCustomers]_vars

\* Rows of one seller that differ in the paid amount, the supply cost, the
\* order id and the cancellation flag.
RateInput ==
    {[DefaultRow EXCEPT !.paid = a, !.supply_price = u[1], !.qty = u[2],
                        !.order_id = o, !.cancelled = f] :
        a \in {Num(0), Num(3000)},
        u \in {<<Num(0), 1>>, <<Num(1500), 2>>},
        o \in {NaN, Num(1)},
        f \in {"Y", "N"}}

NextRates ==
    \/ \E r \in RateInput : WriteRow(r)
    \/ AppLoadData
    \/ CalculateSellerMetrics

SpecRates == Init /\ [][NextRates]_vars

\* Rows of one seller whose paid amount and supply unit price are numbers,
\* numerals with a thousands separator, or text that is no number.
CleaningInput ==
    {[DefaultRow EXCEPT !.paid = a, !.supply_price = u] :
        a \in {Num(500), Txt(<<"1", "2", ",", "3", "4", "5">>), Txt(<<"a", "b", "c">>)},
        u \in {Num(100), Txt(<<"3", ",", "0", "0", "0">>), Txt(<<"a", "b", "c">>)}}

NextCleaning ==
    \/ \E r \in CleaningInput : WriteRow(r)
    \/ AppLoadData
    \/ CalculateSellerMetrics

SpecCleaning == Init /\ [][NextCleaning]_vars

\* Rows that differ in the seller, the order day and the paid amount.
ColumnsInput ==
    {[DefaultRow EXCEPT !.seller = s, !.order_date = d, !.paid = a] :
        s \in Sellers, d \in {Num(0), Num(2)}, a \in {Num(0), Num(4000)}}

NextColumns ==
    \/ \E r \in ColumnsInput : WriteRow(r)
    \/ AppLoadData
    \/ SidebarFilter
    \/ Tabs1to6
    \/ Tab7
    \/ CalculateSellerMetrics

SpecColumns == InitColumns /\ [][NextColumns]_vars

\* Cancelled orders with a margin that differ in the seller and the order day.
DashboardInput ==
    {[DefaultRow EXCEPT !.seller = s, !.order_date = d, !.paid = Num(4000),
                        !.cancelled = "Y"] :
        s \in Sellers, d \in {Num(0), Num(2)}}

\* Runs of the dashboard, one after the other, and of the four scripts,
\* with the file changing between the runs.
NextDashboard ==
    \/ \E r \in DashboardInput : WriteRow(r)
    \/ RemoveFile
    \/ AppLoadData
    \/ SidebarFilter
    \/ Tabs1to6
    \/ Tab7
    \/ Rerun
    \/ EdaLoadAndPreprocess
    \/ HypothesisMain
    \/ GyeonggiMain
    \/ AnalyzeSellerRepurchase

SpecDashboard == Init /\ [][NextDashboard]_vars

\* Rows that differ in the seller, the paid amount and the order timestamp,
\* the seller name and the timestamp missing in some of them.
SummaryInput ==
    {[DefaultRow EXCEPT !.seller = s, !.paid = a, !.order_date = d] :
        s \in Sellers \cup {NoStr}, a \in {Num(0), Num(4000)}, d \in {NaN, Num(0), Num(2)}}

NextSummary ==
    \/ \E r \in SummaryInput : WriteRow(r)
    \/ AppLoadData
    \/ CalculateSellerMetrics

SpecSummary == Init /\ [][NextSummary]_vars

\* Rows that differ in the paid amount (missing, negative, zero, positive)
\* and in the supply unit price and the quantity.
HypothesisInput ==
    {[DefaultRow EXCEPT !.paid = a, !.supply_price = u[1], !.qty = u[2]] :
        a \in {NaN, Num(0 - 1000), Num(0), Num(4000)},
        u \in {<<NaN, 1>>, <<Num(1500), 2>>, <<Txt(<<"3", ",", "0", "0", "0">>), 1>>}}

NextHypothesis ==
    \/ \E r \in HypothesisInput : WriteRow(r)
    \/ HypothesisMain

SpecHypothesis == Init /\ [][NextHypothesis]_vars

\* Rows that differ in the seller, the customer and the order timestamp,
\* the customer and the timestamp missing in some of them.
CompareInput ==
    {[DefaultRow EXCEPT !.seller = s, !.contact = c, !.order_date = d] :
        s \in Sellers, c \in Contacts \cup {NoStr}, d \in {NaN, Num(0), Num(2)}}

NextCompare ==
    \/ \E r \in CompareInput : WriteRow(r)
    \/ AppLoadData
    \/ CalculateSellerMetrics
    \/ AnalyzeSellerRepurchase

SpecCompare == Init /\ [][NextCompare]_vars

\* Rows that differ in the seller, the paid amount, the supply unit price
\* and the quantity, for a call repeated on the processed table.
RepeatInput ==
    {[DefaultRow EXCEPT !.seller = s, !.paid = a, !.supply_price = u[1], !.qty = u[2]] :
        s \in Sellers,
        a \in {Num(0), Num(4000)},
        u \in {<<Num(0), 1>>, <<Num(1500), 2>>, <<Txt(<<"3", ",", "0", "0", "0">>), 1>>}}

NextRepeat ==
    \/ \E r \in RepeatInput : WriteRow(r)
    \/ AppLoadData
    \/ CalculateSellerMetrics

SpecRepeat == Init /\ [][NextRepeat]_vars

\* Rows that differ in the customer and in the order timestamp, for the
\* comparison of two annotated tables.
AnnotatorInput ==
    {[DefaultRow EXCEPT !.contact = c, !.order_date = d] :
        c \in Contacts \cup {NoStr}, d \in {NaN, Num(0), Num(1), Num(2)}}

NextAnnotators ==
    \/ \E r \in AnnotatorInput : WriteRow(r)
    \/ AppLoadData
    \/ EdaLoadAndPreprocess

SpecAnnotators == Init /\ [][NextAnnotators]_vars

Next ==
    \/ \E r \in RepurchaseRows \cup OrderInput \cup MarginInput \cup CustomerInput
                 \cup RateInput \cup CleaningInput \cup ColumnsInput
                 \cup DashboardInput \cup SummaryInput
                 \cup HypothesisInput \cup CompareInput \cup RepeatInput
                 \cup AnnotatorInput :
          WriteRow(r)
    \/ RemoveFile
    \/ AppLoadData
    \/ SidebarFilter
    \/ Tabs1to6
    \/ Tab7
    \/ Rerun
    \/ EdaLoadAndPreprocess
    \/ HypothesisMain
    \/ GyeonggiMain
    \/ CalculateSellerMetrics
    \/ AnalyzeSellerRepurchase

Spec == Init /\ [][Next]_vars

\* ------------------------------------------- the repurchase annotator
Annotated == pc \in {"app", "eda"}

\* The annotator of the script that is running, applied to a file.
Annotate(t) == IF pc = "eda" THEN load_and_preprocess(t) ELSE load_data(t)

\* The repurchase count a row carries (app.py and eda_script.py name the
\* column differently).
CountOf(r) ==
    IF "RepurchaseCount" \in DOMAIN r THEN r.RepurchaseCount ELSE r.repurchase_count

\* The count carried by the row with index label x of table t.
CountAt(t, x) == CountOf(t.rows[CHOOSE i \in 1..Len(t.rows) : t.rows[i].idx = x])

\* The calendar days on which contact c has a row in the file.
DaysOf(t, c) ==
    {t.rows[i].order_date.v \div 2 : i \in {j \in 1..Len(t.rows) :
        t.rows[j].contact = c /\ t.rows[j].order_date.k = "num"}}

RowsOf(t, c) == {i \in 1..Len(t.rows) : t.rows[i].contact = c}

\* C1: after the annotator has run, every row with a contact carries
\* (number of distinct calendar dates of that contact) - 1, and no row
\* carries a negative repurchase count, also when all order dates of the
\* contact are missing.
C1_CountIsDistinctDatesMinusOneNonNegative ==
    Annotated =>
        \A i \in 1..Len(df.rows) :
            /\ df.rows[i].contact # NoStr =>
                 CountOf(df.rows[i]) = Cardinality(DaysOf(file, df.rows[i].contact)) - 1
            /\ CountOf(df.rows[i]) >= 0

\* C2: the count counts distinct calendar dates, not rows: one more row of
\* a contact on a date the contact already has (any time of day) changes no
\* row's count; one more row on a date new to the contact raises the count
\* of that contact's rows by exactly 1 and changes no other contact's count.
\* A contact with two rows on one day has 0, with rows on two days has 1.
\* (The row is added to every file that is not yet at the row bound.)
C2_CountsDatesNotRows ==
    Annotated =>
        /\ \A r \in RepurchaseRows :
             (Len(file.rows) < MaxRows /\ r.contact # NoStr /\ r.order_date.k = "num") =>
                LET more == Annotate(AppendRow(file, r))
                    known == (r.order_date.v \div 2) \in DaysOf(file, r.contact)
                IN /\ Len(more.rows) = Len(df.rows) + 1
                   /\ \A i \in 1..Len(df.rows) :
                        CountAt(more, df.rows[i].idx) =
                            IF ~known /\ df.rows[i].contact = r.contact
                            THEN CountOf(df.rows[i]) + 1
                            ELSE CountOf(df.rows[i])
                   /\ CountAt(more, Len(file.rows)) =
                        Cardinality(DaysOf(file, r.contact)) - (IF known THEN 1 ELSE 0)
        /\ \A c \in Contacts :
             (Cardinality(RowsOf(file, c)) = 2
                /\ \A i \in RowsOf(file, c) : file.rows[i].order_date.k = "num") =>
                \A i \in 1..Len(df.rows) :
                    df.rows[i].contact = c =>
                        CountOf(df.rows[i]) =
                            IF Cardinality(DaysOf(file, c)) = 1 THEN 0 ELSE 1

\* A contact with two rows at different times of one day carries 0 while
\* another row of the table belongs to a different customer.
C2_Witness ==
    /\ pc = "app"
    /\ \E i, j \in 1..Len(df.rows) :
         /\ df.rows[i].contact = "A" /\ df.rows[j].contact = "A"
         /\ df.rows[i].order_date = Num(0) /\ df.rows[j].order_date = Num(1)
         /\ df.rows[i].RepurchaseCount = 0
    /\ \E i \in 1..Len(df.rows) : df.rows[i].contact = "B"

\* The file without the rows that have no contact (index labels kept).
WithContact(t) == [t EXCEPT !.rows = SelectSeq(@, LAMBDA r : r.contact # NoStr)]

\* C3: rows without a contact are left out of the distinct-date grouping:
\* every such row carries 0, and every other row carries what it would
\* carry if the rows without a contact were not in the table.
C3_NullContactExcluded ==
    Annotated =>
        LET known == Annotate(WithContact(file))
        IN \A i \in 1..Len(df.rows) :
            IF df.rows[i].contact = NoStr
            THEN CountOf(df.rows[i]) = 0
            ELSE CountOf(df.rows[i]) = CountAt(known, df.rows[i].idx)

\* Two rows without a contact on two different days, beside a customer's row.
C3_Witness ==
    /\ Annotated
    /\ \E i, j, k \in 1..Len(df.rows) :
         /\ df.rows[i].contact = NoStr /\ df.rows[j].contact = NoStr
         /\ df.rows[i].order_date = Num(0) /\ df.rows[j].order_date = Num(2)
         /\ df.rows[k].contact = "A" /\ df.rows[k].order_date = Num(0)
         /\ CountOf(df.rows[i]) = 0 /\ CountOf(df.rows[k]) = 0

\* ------------------------------------------------- the seller summary
Summarised == pc = "metrics"

\* The rows of the file that name seller s.
FileRowsOf(s) == {i \in 1..Len(file.rows) : file.rows[i].seller = s}

\* The amount a cell of the file stands for: "3,000" stands for 3000.
Won(c) ==
    IF c.k = "num" THEN c.v
    ELSE IF c = Txt(<<"3", ",", "0", "0", "0">>) THEN 3000
    ELSE 0

\* C4: OrderCount of each seller is the number of distinct order ids among
\* the seller's rows; a multi-line order is counted once.
C4_OrderCountDistinctIds ==
    Summarised =>
        \A g \in 1..Len(seller_stats) :
            seller_stats[g].OrderCount =
                Cardinality({file.rows[i].order_id.v :
                    i \in {j \in FileRowsOf(seller_stats[g].seller) :
                              file.rows[j].order_id.k = "num"}})

\* A seller with three rows, two of them lines of one order, has OrderCount 2.
C4_Witness ==
    /\ Summarised
    /\ \E g \in 1..Len(seller_stats) :
         /\ seller_stats[g].OrderCount = 2
         /\ Cardinality(FileRowsOf(seller_stats[g].seller)) = 3
         /\ \A i \in FileRowsOf(seller_stats[g].seller) : file.rows[i].order_id.k = "num"

\* C5: TotalRevenue is the sum of the paid amount over the seller's rows,
\* TotalMargin the sum of (paid amount - supply unit price x quantity), and
\* MarginRate = TotalMargin / TotalRevenue x 100 when TotalRevenue is not 0;
\* paid 10,000 with supply cost 6,000 gives TotalMargin 4,000 and MarginRate 40.
C5_RevenueMarginRate ==
    Summarised =>
        \A g \in 1..Len(seller_stats) :
            LET S == FileRowsOf(seller_stats[g].seller)
                revenue == SumOver(S, [i \in 1..Len(file.rows) |-> Won(file.rows[i].paid)])
                cost == SumOver(S, [i \in 1..Len(file.rows) |->
                            Won(file.rows[i].supply_price) * file.rows[i].qty])
                row == seller_stats[g]
            IN /\ row.TotalRevenue = revenue
               /\ row.TotalMargin = revenue - cost
               /\ revenue # 0 =>
                    /\ row.MarginRate.k = "num"
                    /\ row.MarginRate.n * revenue = (revenue - cost) * 100 * row.MarginRate.d
               /\ (revenue = 10000 /\ cost = 6000) =>
                    /\ row.TotalMargin = 4000
                    /\ row.MarginRate = Frac(40, 1)

\* Two orders of one seller: paid 4,000 and 6,000, supply cost 1,500 x 2 and
\* "3,000" x 1.
C5_Witness ==
    /\ Summarised
    /\ \E g \in 1..Len(seller_stats) :
         /\ seller_stats[g].TotalRevenue = 10000
         /\ seller_stats[g].TotalMargin = 4000
         /\ seller_stats[g].MarginRate = Frac(40, 1)
         /\ Cardinality(FileRowsOf(seller_stats[g].seller)) = 2
         /\ \E i \in FileRowsOf(seller_stats[g].seller) : file.rows[i].qty = 2

\* C6: a seller whose TotalRevenue is 0 has MarginRate 0, never NaN or
\* +-infinity, whatever the seller's TotalMargin is.
C6_ZeroRevenueMarginRateZero ==
    Summarised =>
        \A g \in 1..Len(seller_stats) :
            seller_stats[g].TotalRevenue = 0 => seller_stats[g].MarginRate = Frac(0, 1)

\* C7: CancelRate = CancelCount / OrderCount x 100 is a finite number for
\* every seller, and 0 when the seller's OrderCount is 0.
C7_CancelRateDefined ==
    Summarised =>
        \A g \in 1..Len(seller_stats) :
            LET row == seller_stats[g]
            IN /\ IsFinite(row.CancelRate)
               /\ row.OrderCount = 0 => row.CancelRate = Frac(0, 1)
               /\ row.OrderCount # 0 =>
                    row.CancelRate = Frac(row.CancelCount * 100, row.OrderCount)

\* C8: the summary is sorted by TotalRevenue in descending order, and
\* sellers with equal TotalRevenue stay in the order of the grouped table,
\* ascending seller name.
C8_SortedDescendingStable ==
    Summarised =>
        \A g, h \in 1..Len(seller_stats) :
            g < h =>
                \/ seller_stats[g].TotalRevenue > seller_stats[h].TotalRevenue
                \/ /\ seller_stats[g].TotalRevenue = seller_stats[h].TotalRevenue
                   /\ StrPos(seller_stats[g].seller) < StrPos(seller_stats[h].seller)

\* The customers of seller s, and the rows of one of them with the seller.
FileCustomers(s) == {file.rows[i].contact : i \in FileRowsOf(s)} \ {NoStr}

FileRowsWith(s, c) == {i \in FileRowsOf(s) : file.rows[i].contact = c}

\* C9: RepurchaseRate in calculate_seller_metrics is computed from the
\* seller's rows only: repurchasing customers are those whose contact occurs
\* in more than one of the seller's rows (also on one day), and the rate is
\* repurchasing / distinct customers x 100, 0 without any customer.
C9_RepurchaseRateRawRows ==
    Summarised =>
        \A g \in 1..Len(seller_stats) :
            LET s == seller_stats[g].seller
                again == {c \in FileCustomers(s) : Cardinality(FileRowsWith(s, c)) > 1}
            IN seller_stats[g].RepurchaseRate =
                 IF FileCustomers(s) = {} THEN Frac(0, 1)
                 ELSE Frac(Cardinality(again) * 100, Cardinality(FileCustomers(s)))

\* One seller with a customer who has two rows on one day and a second
\* customer with one row: rate 50; the other customers' rows are elsewhere.
C9_Witness ==
    /\ Summarised
    /\ \E g \in 1..Len(seller_stats) :
         LET s == seller_stats[g].seller
         IN /\ seller_stats[g].RepurchaseRate = Frac(50, 1)
            /\ \E c \in FileCustomers(s) :
                 /\ Cardinality(FileRowsWith(s, c)) = 2
                 /\ Cardinality({file.rows[i].order_date.v \div 2 :
                                    i \in FileRowsWith(s, c)}) = 1

\* C10: in the seller summary, the repurchase rate of a seller is (customers
\* with more than one distinct order date with the seller) / (distinct
\* customers of the seller), 0 without any customer.
C10_RepurchaseRateDistinctDates ==
    Summarised =>
        \A g \in 1..Len(seller_stats) :
            LET s == seller_stats[g].seller
                again == {c \in FileCustomers(s) :
                            Cardinality({file.rows[i].order_date.v \div 2 :
                                i \in {j \in FileRowsWith(s, c) :
                                    file.rows[j].order_date.k = "num"}}) > 1}
            IN seller_stats[g].RepurchaseRate =
                 IF FileCustomers(s) = {} THEN Frac(0, 1)
                 ELSE Frac(Cardinality(again) * 100, Cardinality(FileCustomers(s)))

\* -------------------------------------------------- the lifecycle fields
\* The calendar days on which the rows S of the file have an order.
FileDays(S) ==
    {file.rows[i].order_date.v \div 2 :
        i \in {j \in S : file.rows[j].order_date.k = "num"}}

FirstDay(D) == CHOOSE x \in D : \A y \in D : x <= y

LastDay(D) == CHOOSE x \in D : \A y \in D : x >= y

\* C11: for every seller with a dated order, TenureDays is (last order date
\* - first order date, in days) + 1 and RecencyDays is (the latest order
\* date of the table - the seller's last order date) in days, where an order
\* late on one day and an order early on the next are on different dates.
C11_TenureRecencyCalendarDays ==
    Summarised =>
        \A g \in 1..Len(seller_stats) :
            LET own == FileDays(FileRowsOf(seller_stats[g].seller))
                all == FileDays(1..Len(file.rows))
            IN own # {} =>
                 /\ seller_stats[g].TenureDays = Num(LastDay(own) - FirstDay(own) + 1)
                 /\ seller_stats[g].RecencyDays = Num(LastDay(all) - LastDay(own))

\* ------------------------------------------------- currency cleaning
\* The number a cell of a currency column stands for: a numeral with
\* thousands separators stands for its value, any other text for 0.
Cleaned(c) ==
    IF c.k = "num" THEN c.v
    ELSE IF c = Txt(<<"1", "2", ",", "3", "4", "5">>) THEN 12345
    ELSE IF c = Txt(<<"3", ",", "0", "0", "0">>) THEN 3000
    ELSE 0

\* The row of the file with index label x.
FileRow(x) == file.rows[CHOOSE i \in 1..Len(file.rows) : file.rows[i].idx = x]

\* C12: currency cleaning never raises, neither in load_data nor in
\* calculate_seller_metrics; after load_data every paid-amount cell is the
\* number its text stands for ("12,345" is 12345, "abc" is 0), and after
\* calculate_seller_metrics so are the paid amount and the supply cost.
C12_CleaningNeverRaises ==
    /\ pc # "error"
    /\ pc \in {"app", "metrics"} =>
         \A i \in 1..Len(df.rows) :
            df.rows[i].paid = Num(Cleaned(FileRow(df.rows[i].idx).paid))
    /\ pc = "metrics" =>
         \A i \in 1..Len(df.rows) :
            df.rows[i].SupplyCost =
                Cleaned(FileRow(df.rows[i].idx).supply_price) * df.rows[i].qty

\* ------------------------------------------------------ frame effects
\* C13: a call of calculate_seller_metrics leaves the table it is passed as
\* it was: no column is added and no cell is rewritten.
C13_NoSideEffects ==
    [][(pc \in {"app", "tabs"} /\ pc' = "metrics") => df' = df]_vars

Missing == AllCols \ file.cols

\* C14: a missing expected column never aborts the dashboard: on a file
\* without one of the expected columns no step of the run (load_data, the
\* date filter, the tabs, calculate_seller_metrics) ends in an exception.
\* (What the date picker does on a table without any date is left aside.)
C14_MissingColumnTolerated ==
    Cardinality(Missing) = 1 => raised \in {"", "date_input"}

\* C15: calculate_seller_metrics does not fail for want of the customer
\* contact or of the parsed order date; without the contact column every
\* RepurchaseRate is 0, without the order date every TenureDays and
\* RecencyDays is 0 and FirstOrderDate is null, and the other fields are
\* what they are with the column: the sums and counts over the seller's rows
\* and the rates derived from them.
C15_DefaultsWithoutColumns ==
    (Missing # {} /\ Missing \subseteq {"contact", "order_date"}) =>
        /\ raised # "calculate_seller_metrics"
        /\ Summarised =>
             /\ {seller_stats[g].seller : g \in 1..Len(seller_stats)} =
                    {file.rows[i].seller : i \in 1..Len(file.rows)}
             /\ \A g \in 1..Len(seller_stats) :
                  LET row == seller_stats[g]
                      S == FileRowsOf(row.seller)
                      revenue == SumOver(S, [i \in 1..Len(file.rows) |-> file.rows[i].paid.v])
                  IN /\ "contact" \in Missing => row.RepurchaseRate = Frac(0, 1)
                     /\ "order_date" \in Missing =>
                          /\ row.TenureDays = Num(0)
                          /\ row.RecencyDays = Num(0)
                          /\ row.FirstOrderDate = NaN
                     /\ row.TotalRevenue = revenue
                     /\ row.TotalMargin = revenue
                     /\ row.OrderCount = 1
                     /\ row.TotalQty = Cardinality(S)
                     /\ row.CancelCount = 0
                     /\ row.MarginRate = (IF revenue = 0 THEN Frac(0, 1) ELSE Frac(100, 1))
                     /\ row.CancelRate = Frac(0, 1)
                     /\ row.AOV = Frac(revenue, 1)

\* A summary of a table with neither column: a seller with two orders and
\* revenue 8000 has the three defaults.
C15_Witness ==
    /\ Summarised
    /\ Missing = {"contact", "order_date"}
    /\ \E g \in 1..Len(seller_stats) :
         /\ Cardinality(FileRowsOf(seller_stats[g].seller)) = 2
         /\ seller_stats[g].TotalRevenue = 8000
         /\ seller_stats[g].RepurchaseRate = Frac(0, 1)
         /\ seller_stats[g].TenureDays = Num(0)
         /\ seller_stats[g].RecencyDays = Num(0)
         /\ seller_stats[g].FirstOrderDate = NaN

\* -------------------------------------------------- runs and the memo
\* C16: while the input file does not exist no entry point gets past its
\* report: no table is loaded, cleaned, annotated or aggregated, and no
\* exception is raised.
C16_MissingFileStops ==
    ~exists =>
        /\ pc \in {"file", "stopped"}
        /\ raised = ""
        /\ df = NoTable
        /\ seller_stats = <<>>
        /\ results_df = <<>>

\* C17: a memoized result is never returned for a table other than the one
\* it was computed from: load_data returns the annotated content the file
\* has at the time of the request, and calculate_seller_metrics returns a
\* summary of the table it is given.
C17_MemoNeverStale ==
    [][/\ (pc = "file" /\ pc' = "app" /\ exists) => df' = load_data(file)
       /\ (pc \in {"app", "tabs"} /\ pc' = "metrics") =>
             seller_stats' \in sort_outcomes(grouped_stats(metrics_table(df)))]_vars

\* The rows of seller s that lie in the window of the date filter.
InWindow(s) == {i \in mask(df, window) : df.rows[i].seller = s}

\* C19: in the summary of tab 7 a seller of the table who has no order in
\* the window of the date filter is reported with MarginRate 0 and
\* CancelRate 0, and calculate_seller_metrics does not raise.
C19_EmptyWindowZeroRates ==
    /\ raised # "calculate_seller_metrics"
    /\ (pc = "metrics" /\ df_filtered = "df") =>
         \A s \in Sellers :
            ((\E i \in 1..Len(df.rows) : df.rows[i].seller = s) /\ InWindow(s) = {}) =>
                \E g \in 1..Len(seller_stats) :
                    /\ seller_stats[g].seller = s
                    /\ seller_stats[g].MarginRate = Frac(0, 1)
                    /\ seller_stats[g].CancelRate = Frac(0, 1)

\* ------------------------------------------- the annotator, relations
\* The file with the rows at positions a and b exchanged; read_csv labels
\* the rows by their position.
Swapped(t, a, b) ==
    [t EXCEPT !.rows = Rows([k \in 1..Len(t.rows) |->
        [t.rows[IF k = a THEN b ELSE IF k = b THEN a ELSE k] EXCEPT !.idx = k - 1]])]

\* C21: the repurchase count belongs to the customer: after annotation all
\* rows with one contact carry one count, and each row of the file carries
\* the same count whatever the order of the rows in the file. (The order is
\* changed by exchanging two neighbouring rows; every order of the rows is
\* reached by such exchanges, and every file within the bounds is checked.)
C21_CountIsPerCustomer ==
    Annotated =>
        /\ \A i, j \in 1..Len(df.rows) :
             df.rows[i].contact = df.rows[j].contact =>
                CountOf(df.rows[i]) = CountOf(df.rows[j])
        /\ \A a \in 1..(Len(file.rows) - 1) :
             LET b == a + 1
                 other == Annotate(Swapped(file, a, b))
             IN \A k \in 1..Len(file.rows) :
                  CountAt(other, k - 1) =
                     CountAt(df, (IF k = a THEN b ELSE IF k = b THEN a ELSE k) - 1)

\* Two rows of one customer on two days, the later day first in the file,
\* with a row of another customer between them: both carry 1.
C21_Witness ==
    /\ Annotated
    /\ Len(file.rows) = 3
    /\ file.rows[1].contact = "A" /\ file.rows[1].order_date = Num(2)
    /\ file.rows[2].contact = "B"
    /\ file.rows[3].contact = "A" /\ file.rows[3].order_date = Num(0)
    /\ CountAt(df, 0) = 1 /\ CountAt(df, 2) = 1

\* The annotator of the other script, applied to the file.
AnnotateOther(t) == IF pc = "eda" THEN load_data(t) ELSE load_and_preprocess(t)

\* C27: the two annotators agree: the count load_data of app.py attaches
\* to a row of the file equals the count calculate_repurchase of
\* eda_script.py attaches to that row.
C27_AnnotatorsAgree ==
    Annotated =>
        LET other == AnnotateOther(file)
        IN /\ Len(other.rows) = Len(df.rows)
           /\ \A i \in 1..Len(df.rows) :
                CountOf(df.rows[i]) = CountAt(other, df.rows[i].idx)

\* The eda annotation of a customer with two rows on one day and a third
\* row on another day: every row carries 1.
C27_Witness ==
    /\ pc = "eda"
    /\ Len(df.rows) = 3
    /\ \A i \in 1..3 : df.rows[i].contact = "A" /\ CountOf(df.rows[i]) = 1
    /\ {df.rows[i].order_date : i \in 1..3} = {Num(0), Num(1), Num(2)}

\* ------------------------------------------- the summary, relations
\* The seller names that occur in the file.
FileSellers == {file.rows[i].seller : i \in 1..Len(file.rows)} \ {NoStr}

\* C22: the summary has exactly one row for every seller name of the input
\* table, also after the merge with the first and last order dates, and no
\* row for a seller that is not in the table.
C22_OneRowPerSeller ==
    Summarised =>
        /\ \A s \in FileSellers :
             Cardinality({g \in 1..Len(seller_stats) : seller_stats[g].seller = s}) = 1
        /\ \A g \in 1..Len(seller_stats) : seller_stats[g].seller \in FileSellers

\* Two rows of seller X, one row of seller Y: a summary of two rows.
C22_Witness ==
    /\ Summarised
    /\ Cardinality(FileRowsOf("X")) = 2
    /\ Cardinality(FileRowsOf("Y")) = 1
    /\ Len(seller_stats) = 2

\* C24: after the date filter of the sidebar the table the tabs read holds
\* the rows whose date lies in the chosen window and no other row.
C24_FilteredTableInWindow ==
    (pc \in {"filtered", "tabs", "metrics"} /\ df_filtered = "df") =>
        mask(df, window) = 1..Len(df.rows)

\* The sellers whose rows all carry an order id.
Identified == {s \in FileSellers : \A i \in FileRowsOf(s) : file.rows[i].order_id # NaN}

\* C25: a seller's CancelCount is at most the seller's OrderCount, and the
\* CancelRate lies between 0 and 100, also when a cancelled order has
\* several rows (stated here for the sellers whose rows all have an order id).
C25_CancelCountBounded ==
    Summarised =>
        \A g \in 1..Len(seller_stats) :
            LET row == seller_stats[g]
            IN row.seller \in Identified =>
                 /\ row.CancelCount <= row.OrderCount
                 /\ IsFinite(row.CancelRate)
                 /\ 0 <= row.CancelRate.n
                 /\ row.CancelRate.n <= 100 * row.CancelRate.d

\* C28: the TotalRevenue of the summary rows adds up to the paid amount of
\* all rows of the input table; no row is lost from the aggregation.
C28_RevenueConserved ==
    Summarised =>
        SumOver(1..Len(seller_stats),
                [g \in 1..Len(seller_stats) |-> seller_stats[g].TotalRevenue])
          = SumOver(1..Len(file.rows), [i \in 1..Len(file.rows) |-> Won(file.rows[i].paid)])

\* C29: with the order-date column every summary row has TenureDays >= 1
\* and RecencyDays >= 0, and some summary row has RecencyDays = 0.
C29_TenureRecencyRange ==
    (Summarised /\ "OrderDate" \in df.cols) =>
        /\ \A g \in 1..Len(seller_stats) :
             /\ seller_stats[g].TenureDays.k = "num"
             /\ seller_stats[g].TenureDays.v >= 1
             /\ seller_stats[g].RecencyDays.k = "num"
             /\ seller_stats[g].RecencyDays.v >= 0
        /\ seller_stats # <<>> =>
             \E g \in 1..Len(seller_stats) : seller_stats[g].RecencyDays = Num(0)

\* ------------------------------------------- the margin rate of a row
\* C23: the MarginRate hypothesis_eda.load_data gives a row is never NaN or
\* infinite: 0 when the paid amount is 0, negative or missing, and
\* (paid amount - supply unit price x quantity) / paid amount when the paid
\* amount is positive.
C23_RowMarginRateFinite ==
    (pc = "hypothesis" /\ hyp_has_margin(file)) =>
        \A i \in 1..Len(df.rows) :
            LET r == df.rows[i]
                f == FileRow(r.idx)
            IN /\ IsFinite(r.MarginRate)
               /\ ~(f.paid.k = "num" /\ f.paid.v > 0) => r.MarginRate = Frac(0, 1)
               /\ (f.paid.k = "num" /\ f.paid.v > 0 /\ f.supply_price # NaN) =>
                    r.MarginRate = Frac(f.paid.v - Won(f.supply_price) * f.qty, f.paid.v)

\* ------------------------------------------- the two repurchase rates
\* Comparison of two fractions with positive denominators.
FLeq(a, b) == a.n * b.d <= b.n * a.d

\* Some customer has two rows with seller s on one calendar date.
SameDayPair(s) ==
    LET d == load_data_dates(file)
    IN \E i, j \in FileRowsOf(s) :
          /\ i # j
          /\ d.rows[i].contact # NoStr
          /\ d.rows[i].contact = d.rows[j].contact
          /\ d.rows[i].Date # NaN
          /\ d.rows[i].Date = d.rows[j].Date

\* C26: for every seller the repurchase rate of analyze_seller_repurchase
\* (distinct calendar dates) is at most the RepurchaseRate of
\* calculate_seller_metrics (rows), both lie between 0 and 100, and they are
\* equal when no customer has two rows with the seller on one calendar date.
C26_RatesOrdered ==
    Summarised =>
        \A g \in 1..Len(seller_stats) :
            LET bydate == repurchase_rate(load_data_dates(file), seller_stats[g].seller)
                byrow == seller_stats[g].RepurchaseRate
            IN /\ IsFinite(bydate) /\ IsFinite(byrow)
               /\ FLeq(Frac(0, 1), bydate)
               /\ FLeq(bydate, byrow)
               /\ FLeq(byrow, Frac(100, 1))
               /\ ~SameDayPair(seller_stats[g].seller) => bydate = byrow

====
